---- MODULE Spec2Model ----
(***************************************************************************)
(* Product dashboard (src/script.js): one fetch of the product list, then  *)
(* client-side search, sort and pagination over the in-memory list.        *)
(*                                                                         *)
(* Text is modelled as a sequence of one-character strings, so that        *)
(* toLowerCase, trim, includes and localeCompare are computed, not         *)
(* assumed.  A product is a record with the fields the handlers read: id,  *)
(* title, price and images (what createTableRow finds in product.images).  *)
(***************************************************************************)
EXTENDS Integers, Sequences, FiniteSets, TLC

VARIABLES
    allProducts,       \* line 5
    filteredProducts,  \* line 6
    currentPage,       \* line 7
    itemsPerPage,      \* line 8
    sortConfig,        \* lines 9-12
    searchValue,       \* searchInput.value, the text in the search box
    pc,                \* where getAll is: "start", "fetch", "json", "done"
    outcome,           \* how getAll settled
    loading,           \* loadingIndicator has the class 'active'
    tableBody,         \* what tableBody holds: [kind, rows]
    pageInfo,          \* pageInfo.textContent
    prevDisabled,      \* prevBtn.disabled
    nextDisabled,      \* nextBtn.disabled
    last               \* the handler that ran last and the page it started from

vars == <<allProducts, filteredProducts, currentPage, itemsPerPage, sortConfig,
          searchValue, pc, outcome, loading, tableBody, pageInfo,
          prevDisabled, nextDisabled, last>>

viewState == <<currentPage, filteredProducts, itemsPerPage, sortConfig>>

dom == <<tableBody, pageInfo, prevDisabled, nextDisabled>>

-----------------------------------------------------------------------------
(* Bounds and inputs *)

MaxProducts == 3

DefaultItemsPerPage == 10

\* The values of the <option>s of #itemsPerPage (the page is not part of the
\* sources; the handler reads them with parseInt).
PageSizeOptions == {1, 2, DefaultItemsPerPage}

\* The data-sort values of the .sort-btn buttons; "id" stands for a column
\* sortProducts does not recognise.
SortColumns == {"title", "price", "id"}

\* Texts typed into the search box.
SearchTexts == { <<>>, <<" ", "A">>, <<"b", " ">>, <<"z">> }

\* Products as the API delivers them (spec section 6).
Catalog ==
    { [id |-> 1, title |-> <<"B">>,      price |-> 2, images |-> "string"],
      [id |-> 2, title |-> <<"a", "b">>, price |-> 1, images |-> "string"],
      [id |-> 3, title |-> <<"A", "b">>, price |-> 2, images |-> "none"],
      [id |-> 4, title |-> <<"a">>,      price |-> 3, images |-> "string"] }

\* A product whose images[0] is not a string: firstImage.trim() throws.
Malformed ==
    { [id |-> 5, title |-> <<"b", "a">>, price |-> 1, images |-> "nonString"] }

\* The product lists of at most MaxProducts distinct products drawn from P.
ProductLists(P) ==
    UNION { { s \in [1..n -> P] : \A i, j \in 1..n : i # j => s[i].id # s[j].id }
            : n \in 0..MaxProducts }

WellFormedBodies == ProductLists(Catalog)

AnyBodies == ProductLists({ p \in Catalog : p.id <= 2 } \cup Malformed)

-----------------------------------------------------------------------------
(* String helpers *)

\* String.prototype.toLowerCase, one character
lowerChar(c) == CASE c = "A" -> "a" [] c = "B" -> "b" [] OTHER -> c

toLowerCase(s) == [i \in 1..Len(s) |-> lowerChar(s[i])]

RECURSIVE trimStart(_)
trimStart(s) == IF s # <<>> /\ Head(s) = " " THEN trimStart(Tail(s)) ELSE s

RECURSIVE trimEnd(_)
trimEnd(s) ==
    IF s # <<>> /\ s[Len(s)] = " " THEN trimEnd(SubSeq(s, 1, Len(s) - 1)) ELSE s

\* String.prototype.trim
trim(s) == trimEnd(trimStart(s))

\* String.prototype.includes
includes(s, t) ==
    \E i \in 0..(Len(s) - Len(t)) : SubSeq(s, i + 1, i + Len(t)) = t

\* Collation weight of a (lower-case) character
charRank(c) == CASE c = " " -> 0 [] c = "a" -> 1 [] c = "b" -> 2 [] OTHER -> 3

\* String.prototype.localeCompare on lower-cased text: negative, 0, positive
RECURSIVE localeCompare(_, _)
localeCompare(a, b) ==
    IF a = <<>> /\ b = <<>> THEN 0
    ELSE IF a = <<>> THEN -1
    ELSE IF b = <<>> THEN 1
    ELSE IF charRank(Head(a)) < charRank(Head(b)) THEN -1
    ELSE IF charRank(Head(a)) > charRank(Head(b)) THEN 1
    ELSE localeCompare(Tail(a), Tail(b))

\* parseFloat of a price the JSON body carries as a number (an integer here):
\* the number is printed and read back, which gives the same number.
parseFloat(p) == p

\* Math.ceil(n / d), d > 0
ceilDiv(n, d) == (n + d - 1) \div d

-----------------------------------------------------------------------------
(* Filter and sort *)

\* Array.prototype.filter
RECURSIVE filter(_, _)
filter(s, term) ==
    IF s = <<>> THEN <<>>
    ELSE IF includes(toLowerCase(Head(s).title), term)
         THEN <<Head(s)>> \o filter(Tail(s), term)
         ELSE filter(Tail(s), term)

\* Faulty variant of filterResult: the title is not lower-cased before the match.
filterCaseSensitive(all, searchTerm) ==
    IF searchTerm = <<>> THEN all
    ELSE SelectSeq(all, LAMBDA p : includes(p.title, searchTerm))

\* filterProducts, lines 99-105: the new filteredProducts
filterResult(all, searchTerm) ==
    IF searchTerm = <<>> THEN all ELSE filter(all, searchTerm)

\* The order of the UTF-16 code units of two texts ("B" before "a")
codeUnit(c) ==
    CASE c = " " -> 0 [] c = "A" -> 1 [] c = "B" -> 2 [] c = "a" -> 3
      [] c = "b" -> 4 [] OTHER -> 5

RECURSIVE codeUnitCompare(_, _)
codeUnitCompare(a, b) ==
    IF a = <<>> /\ b = <<>> THEN 0
    ELSE IF a = <<>> THEN -1
    ELSE IF b = <<>> THEN 1
    ELSE IF codeUnit(Head(a)) < codeUnit(Head(b)) THEN -1
    ELSE IF codeUnit(Head(a)) > codeUnit(Head(b)) THEN 1
    ELSE codeUnitCompare(Tail(a), Tail(b))

\* Faulty variant of compare: the titles are compared as they are, without
\* toLowerCase and localeCompare (lines 135-139).
compareCaseSensitive(a, b, cfg) ==
    IF cfg.column = "title"
    THEN IF cfg.direction = "asc"
         THEN codeUnitCompare(a.title, b.title)
         ELSE codeUnitCompare(b.title, a.title)
    ELSE IF cfg.column = "price"
    THEN IF cfg.direction = "asc"
         THEN parseFloat(a.price) - parseFloat(b.price)
         ELSE parseFloat(b.price) - parseFloat(a.price)
    ELSE 0

\* Faulty variant of compare: line 145 repeats line 144, so that a descending
\* price sort orders like an ascending one.
compareDescAsAsc(a, b, cfg) ==
    IF cfg.column = "title"
    THEN IF cfg.direction = "asc"
         THEN localeCompare(toLowerCase(a.title), toLowerCase(b.title))
         ELSE localeCompare(toLowerCase(b.title), toLowerCase(a.title))
    ELSE IF cfg.column = "price"
    THEN parseFloat(a.price) - parseFloat(b.price)
    ELSE 0

\* the comparator of sortProducts, lines 131-149
compare(a, b, cfg) ==
    IF cfg.column = "title"
    THEN IF cfg.direction = "asc"
         THEN localeCompare(toLowerCase(a.title), toLowerCase(b.title))
         ELSE localeCompare(toLowerCase(b.title), toLowerCase(a.title))
    ELSE IF cfg.column = "price"
    THEN IF cfg.direction = "asc"
         THEN parseFloat(a.price) - parseFloat(b.price)
         ELSE parseFloat(b.price) - parseFloat(a.price)
    ELSE 0

\* x put into the sorted s behind every element that does not compare above it
RECURSIVE insertSorted(_, _, _)
insertSorted(x, s, cfg) ==
    IF s = <<>> THEN <<x>>
    ELSE IF compare(Head(s), x, cfg) > 0 THEN <<x>> \o s
    ELSE <<Head(s)>> \o insertSorted(x, Tail(s), cfg)

\* Array.prototype.sort with the comparator (a stable sort, ECMAScript 2019)
RECURSIVE arraySort(_, _)
arraySort(s, cfg) ==
    IF s = <<>> THEN <<>>
    ELSE insertSorted(s[Len(s)], arraySort(SubSeq(s, 1, Len(s) - 1), cfg), cfg)

\* Faulty variant of sortProducts: a descending sort done as the ascending
\* sort reversed.
sortProductsByReverse(fp, cfg) ==
    IF cfg.direction = "desc"
    THEN LET up == arraySort(fp, [cfg EXCEPT !.direction = "asc"])
         IN  [i \in 1..Len(up) |-> up[Len(up) + 1 - i]]
    ELSE arraySort(fp, cfg)

\* sortProducts, lines 130-150
sortProducts(fp, cfg) == arraySort(fp, cfg)

\* Faulty variant of nextSortConfig: line 119 is missing, a new column keeps
\* the direction of the old one.
nextSortConfigKeepsDirection(cfg, column) ==
    IF cfg.column = column
    THEN [column |-> column,
          direction |-> IF cfg.direction = "asc" THEN "desc" ELSE "asc"]
    ELSE [column |-> column, direction |-> cfg.direction]

\* handleSort, lines 115-120: the new sortConfig
nextSortConfig(cfg, column) ==
    IF cfg.column = column
    THEN [column |-> column,
          direction |-> IF cfg.direction = "asc" THEN "desc" ELSE "asc"]
    ELSE [column |-> column, direction |-> "asc"]

\* handleSort, lines 113-122, on a pair [cfg, fp] of sortConfig and
\* filteredProducts: what a click on the sort button of column leaves
sortClicked(st, column) ==
    LET cfg == nextSortConfig(st.cfg, column)
    IN  [cfg |-> cfg, fp |-> sortProducts(st.fp, cfg)]

-----------------------------------------------------------------------------
(* Rendering *)

\* the totalPages of updatePaginationControls and nextPage, lines 251 and 282
totalPagesOf(fp, ipp) == ceilDiv(Len(fp), ipp)

\* Array.prototype.slice(start, end): a negative index counts from the end,
\* and both are clipped to the array
slice(s, start, end) ==
    LET clip(k) == IF k < 0
                   THEN (IF Len(s) + k < 0 THEN 0 ELSE Len(s) + k)
                   ELSE (IF k > Len(s) THEN Len(s) ELSE k)
        from  == clip(start)
        to    == clip(end)
    IN  IF from >= to THEN <<>> ELSE [i \in 1..(to - from) |-> s[from + i]]

\* Faulty variant of pageDataOf: line 156 without the "- 1".
pageDataOffByOne(fp, cp, ipp) == slice(fp, cp * ipp, cp * ipp + ipp)

\* renderTable, lines 156-158: the slice of the current page
pageDataOf(fp, cp, ipp) ==
    LET startIndex == (cp - 1) * ipp
        endIndex   == startIndex + ipp
    IN  slice(fp, startIndex, endIndex)

\* createTableRow throws on a product whose images[0] is no string (line 200)
rowThrows(product) == product.images = "nonString"

\* the rows appended before renderTable returns or throws, lines 176-179
rowsOf(fp, cp, ipp) ==
    LET pageData == pageDataOf(fp, cp, ipp)
        bad      == { i \in 1..Len(pageData) : rowThrows(pageData[i]) }
        n        == IF bad = {} THEN Len(pageData)
                    ELSE (CHOOSE i \in bad : \A j \in bad : i <= j) - 1
    IN  [i \in 1..n |-> [rowNumber |-> (cp - 1) * ipp + i, id |-> pageData[i].id]]

renderThrows(fp, cp, ipp) ==
    \E i \in 1..Len(pageDataOf(fp, cp, ipp)) : rowThrows(pageDataOf(fp, cp, ipp)[i])

\* Faulty variant of pageInfoOf: the no-data branch of line 254 is missing.
pageInfoAlwaysPage(fp, cp, ipp) == <<cp, totalPagesOf(fp, ipp)>>

\* Faulty variant of nextDisabledOf: > for >= on line 264.
nextDisabledOffByOne(fp, cp, ipp) == cp > totalPagesOf(fp, ipp) \/ Len(fp) = 0

\* updatePaginationControls, lines 250-265
pageInfoOf(fp, cp, ipp) ==
    IF Len(fp) = 0 THEN "nodata" ELSE <<cp, totalPagesOf(fp, ipp)>>

prevDisabledOf(cp) == cp = 1

nextDisabledOf(fp, cp, ipp) == cp >= totalPagesOf(fp, ipp) \/ Len(fp) = 0

\* renderTable, lines 155-182, on the new view state: the table body, and the
\* pagination controls unless createTableRow threw before line 181
renderTable(fp, cp, ipp) ==
    /\ tableBody' =
         IF pageDataOf(fp, cp, ipp) = <<>> THEN [kind |-> "nodata", rows |-> <<>>]
         ELSE IF renderThrows(fp, cp, ipp)
              THEN [kind |-> "partial", rows |-> rowsOf(fp, cp, ipp)]
              ELSE [kind |-> "rows", rows |-> rowsOf(fp, cp, ipp)]
    /\ IF renderThrows(fp, cp, ipp)
       THEN UNCHANGED <<pageInfo, prevDisabled, nextDisabled>>
       ELSE /\ pageInfo' = pageInfoOf(fp, cp, ipp)
            /\ prevDisabled' = prevDisabledOf(cp)
            /\ nextDisabled' = nextDisabledOf(fp, cp, ipp)

\* Faulty variant of showError: the catch block without the message of line 54.
showErrorNoMessage ==
    /\ loading' = FALSE
    /\ UNCHANGED tableBody

\* Faulty variant of showError: the catch block without showLoading(false).
showErrorStillLoading ==
    /\ UNCHANGED loading
    /\ tableBody' = [kind |-> "error", rows |-> <<>>]

\* the catch block of getAll, lines 51-61
showError ==
    /\ loading' = FALSE
    /\ tableBody' = [kind |-> "error", rows |-> <<>>]

-----------------------------------------------------------------------------
(* Initial state: the module-level declarations, lines 5-12, and the page   *)
(* before DOMContentLoaded.                                                 *)

Init ==
    /\ allProducts = <<>>
    /\ filteredProducts = <<>>
    /\ currentPage = 1
    /\ itemsPerPage = DefaultItemsPerPage
    /\ sortConfig = [column |-> "null", direction |-> "asc"]
    /\ searchValue = <<>>
    /\ pc = "start"
    /\ outcome = "none"
    /\ loading = FALSE
    /\ tableBody = [kind |-> "initial", rows |-> <<>>]
    /\ pageInfo = "initial"
    /\ prevDisabled = FALSE
    /\ nextDisabled = FALSE
    /\ last = [op |-> "none", from |-> 1]

-----------------------------------------------------------------------------
(* getAll *)

\* lines 25-28 and 34-37: getAll runs to its first await, then the listeners
\* are attached
DOMContentLoaded ==
    /\ pc = "start"
    /\ pc' = "fetch"
    /\ loading' = TRUE
    /\ last' = [op |-> "DOMContentLoaded", from |-> currentPage]
    /\ UNCHANGED <<allProducts, viewState, searchValue, outcome, dom>>

\* lines 37-41: the fetch promise fulfils with a response
fetchFulfilled(ok) ==
    /\ pc = "fetch"
    /\ IF ok
       THEN /\ pc' = "json"
            /\ last' = [op |-> "response", from |-> currentPage]
            /\ UNCHANGED <<outcome, loading, dom>>
       ELSE /\ pc' = "done"
            /\ outcome' = "httpError"
            /\ last' = [op |-> "httpError", from |-> currentPage]
            /\ showError
            /\ UNCHANGED <<pageInfo, prevDisabled, nextDisabled>>
    /\ UNCHANGED <<allProducts, viewState, searchValue>>

\* Faulty variant of fetchRejected: the catch block calls getAll() again.
fetchRejectedRetries ==
    /\ pc = "fetch"
    /\ pc' = "fetch"
    /\ outcome' = "networkError"
    /\ last' = [op |-> "networkError", from |-> currentPage]
    /\ loading' = TRUE
    /\ tableBody' = [kind |-> "error", rows |-> <<>>]
    /\ UNCHANGED <<allProducts, viewState, searchValue,
                   pageInfo, prevDisabled, nextDisabled>>

\* line 37: the fetch promise rejects
fetchRejected ==
    /\ pc = "fetch"
    /\ pc' = "done"
    /\ outcome' = "networkError"
    /\ last' = [op |-> "networkError", from |-> currentPage]
    /\ showError
    /\ UNCHANGED <<allProducts, viewState, searchValue,
                   pageInfo, prevDisabled, nextDisabled>>

\* line 41: response.json() rejects
jsonRejected ==
    /\ pc = "json"
    /\ pc' = "done"
    /\ outcome' = "parseError"
    /\ last' = [op |-> "parseError", from |-> currentPage]
    /\ showError
    /\ UNCHANGED <<allProducts, viewState, searchValue,
                   pageInfo, prevDisabled, nextDisabled>>

\* lines 41-50, and 51-61 when renderTable throws
jsonFulfilled(body) ==
    /\ pc = "json"
    /\ pc' = "done"
    /\ allProducts' = body
    /\ filteredProducts' = body
    /\ currentPage' = 1
    /\ IF renderThrows(body, 1, itemsPerPage)
       THEN /\ outcome' = "renderError"
            /\ last' = [op |-> "renderError", from |-> currentPage]
            /\ showError
            /\ UNCHANGED <<pageInfo, prevDisabled, nextDisabled>>
       ELSE /\ outcome' = "ok"
            /\ last' = [op |-> "loaded", from |-> currentPage]
            /\ renderTable(body, 1, itemsPerPage)
            /\ loading' = FALSE
    /\ UNCHANGED <<itemsPerPage, sortConfig, searchValue>>

-----------------------------------------------------------------------------
(* Event handlers, attached by setupEventListeners                          *)

\* Faulty variant of filterProducts: line 106 (currentPage = 1) is missing.
filterProductsNoReset(text) ==
    /\ pc # "start"
    /\ searchValue' = text
    /\ filteredProducts' = filterResult(allProducts, trim(toLowerCase(text)))
    /\ renderTable(filteredProducts', currentPage, itemsPerPage)
    /\ last' = [op |-> "filterProducts", from |-> currentPage]
    /\ UNCHANGED <<allProducts, currentPage, itemsPerPage, sortConfig,
                   pc, outcome, loading>>

\* Faulty variant of filterProducts: a search also clears the sort.
filterProductsClearsSort(text) ==
    /\ pc # "start"
    /\ searchValue' = text
    /\ filteredProducts' = filterResult(allProducts, trim(toLowerCase(text)))
    /\ sortConfig' = [column |-> "null", direction |-> "asc"]
    /\ currentPage' = 1
    /\ renderTable(filteredProducts', 1, itemsPerPage)
    /\ last' = [op |-> "filterProducts", from |-> currentPage]
    /\ UNCHANGED <<allProducts, itemsPerPage, pc, outcome, loading>>

\* lines 69-72 and filterProducts, lines 98-108
filterProducts(text) ==
    /\ pc # "start"
    /\ searchValue' = text
    /\ filteredProducts' = filterResult(allProducts, trim(toLowerCase(text)))
    /\ currentPage' = 1
    /\ renderTable(filteredProducts', 1, itemsPerPage)
    /\ last' = [op |-> "filterProducts", from |-> currentPage]
    /\ UNCHANGED <<allProducts, itemsPerPage, sortConfig, pc, outcome, loading>>

\* Faulty variant of itemsPerPageChange: line 77 (currentPage = 1) is missing.
itemsPerPageNoReset(n) ==
    /\ pc # "start"
    /\ itemsPerPage' = n
    /\ renderTable(filteredProducts, currentPage, n)
    /\ last' = [op |-> "itemsPerPage", from |-> currentPage]
    /\ UNCHANGED <<allProducts, filteredProducts, currentPage, sortConfig,
                   searchValue, pc, outcome, loading>>

\* lines 75-79
itemsPerPageChange(n) ==
    /\ pc # "start"
    /\ itemsPerPage' = n
    /\ currentPage' = 1
    /\ renderTable(filteredProducts, 1, n)
    /\ last' = [op |-> "itemsPerPage", from |-> currentPage]
    /\ UNCHANGED <<allProducts, filteredProducts, sortConfig, searchValue,
                   pc, outcome, loading>>

\* Faulty variant of handleSort: the sorted list is rebuilt from allProducts,
\* without the search filter.
handleSortSortsAll(column) ==
    /\ pc # "start"
    /\ sortConfig' = nextSortConfig(sortConfig, column)
    /\ filteredProducts' = sortProducts(allProducts, sortConfig')
    /\ currentPage' = 1
    /\ renderTable(filteredProducts', 1, itemsPerPage)
    /\ last' = [op |-> "handleSort", from |-> currentPage]
    /\ UNCHANGED <<allProducts, itemsPerPage, searchValue, pc, outcome, loading>>

\* Faulty variant of handleSort: filteredProducts is the allProducts array
\* itself (line 47 without the spread), so the in-place sort reorders both.
handleSortAliased(column) ==
    /\ pc # "start"
    /\ sortConfig' = nextSortConfig(sortConfig, column)
    /\ filteredProducts' = sortProducts(filteredProducts, sortConfig')
    /\ allProducts' = IF filteredProducts = allProducts
                      THEN filteredProducts' ELSE allProducts
    /\ currentPage' = 1
    /\ renderTable(filteredProducts', 1, itemsPerPage)
    /\ last' = [op |-> "handleSort", from |-> currentPage]
    /\ UNCHANGED <<itemsPerPage, searchValue, pc, outcome, loading>>

\* lines 87-91 and handleSort, lines 113-125
handleSort(column) ==
    /\ pc # "start"
    /\ sortConfig' = nextSortConfig(sortConfig, column)
    /\ filteredProducts' = sortProducts(filteredProducts, sortConfig')
    /\ currentPage' = 1
    /\ renderTable(filteredProducts', 1, itemsPerPage)
    /\ last' = [op |-> "handleSort", from |-> currentPage]
    /\ UNCHANGED <<allProducts, itemsPerPage, searchValue, pc, outcome, loading>>

\* Faulty variant of previousPage: >= for > on line 271.
previousPageNoClamp ==
    /\ pc # "start"
    /\ IF currentPage >= 1
       THEN /\ currentPage' = currentPage - 1
            /\ renderTable(filteredProducts, currentPage - 1, itemsPerPage)
       ELSE UNCHANGED <<currentPage, dom>>
    /\ last' = [op |-> "previousPage", from |-> currentPage]
    /\ UNCHANGED <<allProducts, filteredProducts, itemsPerPage, sortConfig,
                   searchValue, pc, outcome, loading>>

\* lines 270-276
previousPage ==
    /\ pc # "start"
    /\ IF currentPage > 1
       THEN /\ currentPage' = currentPage - 1
            /\ renderTable(filteredProducts, currentPage - 1, itemsPerPage)
       ELSE UNCHANGED <<currentPage, dom>>
    /\ last' = [op |-> "previousPage", from |-> currentPage]
    /\ UNCHANGED <<allProducts, filteredProducts, itemsPerPage, sortConfig,
                   searchValue, pc, outcome, loading>>

\* Faulty variant of nextPage: <= for < on line 283.
nextPageOffByOne ==
    /\ pc # "start"
    /\ IF currentPage <= totalPagesOf(filteredProducts, itemsPerPage)
       THEN /\ currentPage' = currentPage + 1
            /\ renderTable(filteredProducts, currentPage + 1, itemsPerPage)
       ELSE UNCHANGED <<currentPage, dom>>
    /\ last' = [op |-> "nextPage", from |-> currentPage]
    /\ UNCHANGED <<allProducts, filteredProducts, itemsPerPage, sortConfig,
                   searchValue, pc, outcome, loading>>

\* lines 281-288
nextPage ==
    /\ pc # "start"
    /\ IF currentPage < totalPagesOf(filteredProducts, itemsPerPage)
       THEN /\ currentPage' = currentPage + 1
            /\ renderTable(filteredProducts, currentPage + 1, itemsPerPage)
       ELSE UNCHANGED <<currentPage, dom>>
    /\ last' = [op |-> "nextPage", from |-> currentPage]
    /\ UNCHANGED <<allProducts, filteredProducts, itemsPerPage, sortConfig,
                   searchValue, pc, outcome, loading>>

-----------------------------------------------------------------------------
(* Specifications *)

userAction ==
    \/ \E text \in SearchTexts : filterProducts(text)
    \/ \E n \in PageSizeOptions : itemsPerPageChange(n)
    \/ \E column \in SortColumns : handleSort(column)
    \/ previousPage
    \/ nextPage

getAllStep ==
    \/ DOMContentLoaded
    \/ \E ok \in BOOLEAN : fetchFulfilled(ok)
    \/ fetchRejected
    \/ jsonRejected

\* The API delivers products as spec section 6 describes them.
Next ==
    \/ getAllStep
    \/ \E body \in WellFormedBodies : jsonFulfilled(body)
    \/ userAction

Spec == Init /\ [][Next]_vars

\* The API may also deliver a product whose images[0] is not a string.
NextAny ==
    \/ getAllStep
    \/ \E body \in AnyBodies : jsonFulfilled(body)
    \/ userAction

SpecAny == Init /\ [][NextAny]_vars

-----------------------------------------------------------------------------
(* Vocabulary of the properties *)

\* the handlers a user triggers
UserOps == {"filterProducts", "itemsPerPage", "handleSort", "previousPage", "nextPage"}

\* the operations that reset the page: search, sort, page size, loaded fetch
ResetOps == {"filterProducts", "itemsPerPage", "handleSort", "loaded", "renderError"}

\* the search term the input handler derives from the text of the search box
searchTerm == trim(toLowerCase(searchValue))

\* the title of p contains text t, case-insensitively
titleContains(p, t) == includes(toLowerCase(p.title), toLowerCase(t))

elements(s) == { s[i] : i \in 1..Len(s) }

\* a is b with some elements left out, the others in b's order
RECURSIVE isSubsequence(_, _)
isSubsequence(a, b) ==
    IF a = <<>> THEN TRUE
    ELSE IF b = <<>> THEN FALSE
    ELSE IF Head(a) = Head(b) THEN isSubsequence(Tail(a), Tail(b))
    ELSE isSubsequence(a, Tail(b))

\* s is ordered on the column and in the direction of cfg
orderedBy(s, cfg) ==
    \A i, j \in 1..Len(s) : i < j => compare(s[i], s[j], cfg) <= 0

totalPages == totalPagesOf(filteredProducts, itemsPerPage)

maxOf(a, b) == IF a > b THEN a ELSE b

-----------------------------------------------------------------------------
(* C1: in every reachable state filteredProducts holds exactly the products *)
(* of allProducts whose title matches the last applied search term, and is  *)
(* ordered by sortConfig when its column is title or price.                 *)
C1_FilteredConsistent ==
    /\ elements(filteredProducts)
         = { p \in elements(allProducts) : titleContains(p, searchTerm) }
    /\ sortConfig.column \in {"title", "price"}
         => orderedBy(filteredProducts, sortConfig)

(* C2: in every reachable state                                             *)
(* 1 <= currentPage <= max(1, ceil(filteredProducts.length / itemsPerPage)).*)
C2_PageInRange ==
    /\ 1 <= currentPage
    /\ currentPage <= maxOf(1, ceilDiv(Len(filteredProducts), itemsPerPage))

\* the pager stands on the last of three pages, reached by nextPage
C2_Witness ==
    /\ last.op = "nextPage"
    /\ currentPage = 3
    /\ ceilDiv(Len(filteredProducts), itemsPerPage) = 3

(* C3: while the fetch is in flight no user-triggered handler runs (none    *)
(* reads or modifies the view state before the fetch settles).              *)
C3_NoHandlerInFlight ==
    ~(pc \in {"fetch", "json"} /\ last.op \in UserOps)

(* C4: when the fetch returns a non-success status or fails in transport,   *)
(* getAll settles with the error message in the table body, and from then   *)
(* on the loading indicator is cleared and allProducts and filteredProducts *)
(* are empty.                                                               *)
C4_FailedFetch ==
    /\ last.op \in {"httpError", "networkError"} => tableBody.kind = "error"
    /\ outcome \in {"httpError", "networkError"}
         => ~loading /\ allProducts = <<>> /\ filteredProducts = <<>>

\* getAll has just settled on a non-success status, after a handler ran
C4_Witness ==
    /\ last.op = "httpError"
    /\ outcome = "httpError"
    /\ tableBody.kind = "error"
    /\ sortConfig.column # "null"

(* C5: on every path on which the fetch settles (ok, non-ok status,         *)
(* transport failure, body-parse failure, exception while rendering) the    *)
(* loading indicator is cleared, and the only step that ever sets it active *)
(* is the start of getAll.                                                  *)
C5_LoadingCleared ==
    /\ [](pc = "done" => ~loading)
    /\ [][(~loading /\ loading') => pc = "start"]_vars

\* getAll settled through the catch block after renderTable threw
C5_Witness ==
    /\ pc = "done"
    /\ outcome = "renderError"
    /\ allProducts # <<>>
    /\ ~loading

(* C6: a search, a sort, a page-size change and a successful fetch leave    *)
(* currentPage = 1, whatever page was current before.                       *)
C6_ResetToFirstPage ==
    last.op \in ResetOps => currentPage = 1

\* a sort clicked on page 3
C6_Witness ==
    /\ last = [op |-> "handleSort", from |-> 3]
    /\ currentPage = 1

(* C7: previousPage on page 1 and nextPage on the last page (also with an   *)
(* empty filteredProducts) leave the view state unchanged; otherwise they   *)
(* move currentPage by exactly one; no other operation changes currentPage  *)
(* except the resets to 1.                                                  *)
C7_NavigationClamps ==
    [][LET op == last'.op
       IN  /\ (op = "previousPage" /\ currentPage = 1) => UNCHANGED viewState
           /\ (op = "nextPage" /\ currentPage >= totalPages)
                => UNCHANGED viewState
           /\ (op = "previousPage" /\ currentPage > 1)
                => currentPage' = currentPage - 1
           /\ (op = "nextPage" /\ currentPage < totalPages)
                => currentPage' = currentPage + 1
           /\ op \notin {"previousPage", "nextPage"}
                => \/ currentPage' = currentPage
                   \/ currentPage' = 1 /\ op \in ResetOps
      ]_vars

\* nextPage clicked while a search left filteredProducts empty
C7_Witness ==
    /\ last.op = "nextPage"
    /\ last.from = currentPage
    /\ allProducts # <<>>
    /\ filteredProducts = <<>>

(* C8, as claimed: after a search for the typed text t, filteredProducts is *)
(* a subsequence of allProducts, holds exactly the products whose title     *)
(* contains t case-insensitively, and equals allProducts for t = "".        *)
C8_FilterByTypedText ==
    last.op = "filterProducts" =>
        /\ isSubsequence(filteredProducts, allProducts)
        /\ \A p \in elements(allProducts) :
               p \in elements(filteredProducts) <=> titleContains(p, searchValue)
        /\ searchValue = <<>> => filteredProducts = allProducts

(* C8, amended: the same with t replaced by t without its leading and       *)
(* trailing whitespace.                                                     *)
C8_FilterByTrimmedText ==
    last.op = "filterProducts" =>
        /\ isSubsequence(filteredProducts, allProducts)
        /\ \A p \in elements(allProducts) :
               p \in elements(filteredProducts)
                   <=> titleContains(p, trim(searchValue))
        /\ trim(searchValue) = <<>> => filteredProducts = allProducts

\* a search with leading whitespace and an upper-case letter that keeps some
\* products and drops others
C8_Witness ==
    /\ last.op = "filterProducts"
    /\ searchValue = <<" ", "A">>
    /\ filteredProducts # <<>>
    /\ Len(filteredProducts) < Len(allProducts)

\* a search has just run and none of the titles matched its term
noMatch ==
    /\ last.op = "filterProducts"
    /\ allProducts # <<>>
    /\ filteredProducts = <<>>

(* C9, as claimed: after a search that matches no title the visible slice   *)
(* is empty, totalPages is 1, the no-data indicator is shown and both       *)
(* buttons are disabled.                                                    *)
C9_NoMatchOnePage ==
    noMatch =>
        /\ tableBody = [kind |-> "nodata", rows |-> <<>>]
        /\ totalPages = 1
        /\ pageInfo = "nodata"
        /\ prevDisabled /\ nextDisabled

(* C9, amended: the same with totalPages = 0.                               *)
C9_NoMatchZeroPages ==
    noMatch =>
        /\ tableBody = [kind |-> "nodata", rows |-> <<>>]
        /\ totalPages = 0
        /\ pageInfo = "nodata"
        /\ prevDisabled /\ nextDisabled

\* a search that matches none of the loaded products
C9_Witness ==
    /\ last.op = "filterProducts"
    /\ outcome = "ok"
    /\ Len(allProducts) = MaxProducts
    /\ filteredProducts = <<>>

(* C10: whenever the table shows a render, the previous button is enabled   *)
(* exactly when currentPage > 1, the next button exactly when               *)
(* currentPage < ceil(filteredProducts.length / itemsPerPage), and the next *)
(* button is disabled when filteredProducts is empty.                       *)
C10_ButtonsMatchPage ==
    tableBody.kind \in {"rows", "nodata"} =>
        /\ ~prevDisabled <=> currentPage > 1
        /\ ~nextDisabled <=> currentPage < ceilDiv(Len(filteredProducts), itemsPerPage)
        /\ filteredProducts = <<>> => nextDisabled

\* a middle page, both buttons enabled
C10_Witness ==
    /\ tableBody.kind = "rows"
    /\ currentPage = 2
    /\ ~prevDisabled
    /\ ~nextDisabled

minOf(a, b) == IF a < b THEN a ELSE b

\* the one-based positions of filteredProducts that belong to the current page
pagePositions ==
    { k \in 1..Len(filteredProducts) :
        /\ (currentPage - 1) * itemsPerPage < k
        /\ k <= currentPage * itemsPerPage }

(* C11: in every reachable state the rendered rows are exactly the elements *)
(* of filteredProducts at the zero-based indices from                       *)
(* (currentPage-1)*itemsPerPage up to but excluding                         *)
(* currentPage*itemsPerPage, clipped to the list; there are at most         *)
(* itemsPerPage of them, and totalPages >= 1 when filteredProducts is not   *)
(* empty.                                                                   *)
C11_RenderedPage ==
    /\ Len(tableBody.rows) = Cardinality(pagePositions)
    /\ \A i \in 1..Len(tableBody.rows) :
         LET k == (currentPage - 1) * itemsPerPage + i
         IN  /\ k \in pagePositions
             /\ tableBody.rows[i] = [rowNumber |-> k, id |-> filteredProducts[k].id]
    /\ Len(tableBody.rows) <= itemsPerPage
    /\ filteredProducts # <<>> => totalPages >= 1

\* the last page of three products at two per page: one row, clipped
C11_Witness ==
    /\ Len(filteredProducts) = 3
    /\ itemsPerPage = 2
    /\ currentPage = 2
    /\ Len(tableBody.rows) = 1
    /\ tableBody.rows[1].rowNumber = 3

(* C12: handleSort(column) flips the direction and keeps the column when    *)
(* column is the current sortConfig.column; otherwise (the initial null     *)
(* included) the column becomes the new one and the direction 'asc',        *)
(* whatever the direction was.                                              *)
C12_SortToggle ==
    [][last'.op = "handleSort" =>
         /\ sortConfig'.column \in SortColumns
         /\ sortConfig'.column = sortConfig.column
              => sortConfig'.direction # sortConfig.direction
         /\ sortConfig'.column # sortConfig.column
              => sortConfig'.direction = "asc"
         /\ sortConfig'.direction \in {"asc", "desc"}
      ]_vars

\* the same column clicked twice: descending
C12_Witness ==
    /\ last.op = "handleSort"
    /\ sortConfig = [column |-> "price", direction |-> "desc"]

\* sortConfig and filteredProducts of the current state
sorting == [cfg |-> sortConfig, fp |-> filteredProducts]

\* filteredProducts is sorted ascending on column, and sortConfig says so
sortedAscendingOn(column) ==
    /\ sortConfig = [column |-> column, direction |-> "asc"]
    /\ orderedBy(filteredProducts, sortConfig)

reverse(s) == [i \in 1..Len(s) |-> s[Len(s) + 1 - i]]

prices(s) == [i \in 1..Len(s) |-> s[i].price]

(* C13: from a state sorted ascending on a sortable column, two further     *)
(* handleSort clicks on that column (descending, then ascending again)      *)
(* leave filteredProducts in the same order, element by element, also with  *)
(* equal titles or equal prices in the list.                                *)
C13_ToggleTwice ==
    \A column \in {"title", "price"} :
        sortedAscendingOn(column) =>
            LET once  == sortClicked(sorting, column)
                twice == sortClicked(once, column)
            IN  /\ once.cfg = [column |-> column, direction |-> "desc"]
                /\ twice = sorting

\* sorted ascending by title with the two equal titles "ab" and "Ab" in it
C13_Witness ==
    /\ last.op = "handleSort"
    /\ sortedAscendingOn("title")
    /\ Len(filteredProducts) = 3
    /\ \E i \in 1..2 :
         /\ filteredProducts[i].id = 3
         /\ filteredProducts[i + 1].id = 2

(* C14: the prices of filteredProducts sorted by price descending are the   *)
(* exact reverse of its prices sorted by price ascending, value by value.   *)
C14_PriceReversal ==
    sortedAscendingOn("price") =>
        LET descending == sortClicked(sorting, "price")
        IN  /\ descending.cfg.direction = "desc"
            /\ prices(descending.fp) = reverse(prices(filteredProducts))

\* sorted ascending by price, with two equal prices and a different one
C14_Witness ==
    /\ last.op = "handleSort"
    /\ sortedAscendingOn("price")
    /\ prices(filteredProducts) = <<1, 2, 2>>

(* C15: once a successful fetch has populated allProducts, no search, sort, *)
(* page-size change or navigation changes its contents or order, and        *)
(* clearing the search after any sort gives the products in the fetched     *)
(* order.                                                                   *)
C15_ProductsReadOnly ==
    [][outcome = "ok" =>
         /\ allProducts' = allProducts
         /\ (last'.op = "filterProducts" /\ trim(searchValue') = <<>>)
              => filteredProducts' = allProducts
      ]_vars

\* the search cleared after a title sort that had reordered the list
C15_Witness ==
    /\ last.op = "filterProducts"
    /\ searchValue = <<>>
    /\ outcome = "ok"
    /\ sortConfig.column = "title"
    /\ ~orderedBy(allProducts, sortConfig)
    /\ filteredProducts = allProducts

\* text s is at or before text t in case-insensitive lexicographic order
textAtMost(s, t) ==
    LET a == toLowerCase(s)
        b == toLowerCase(t)
    IN  \E k \in 0..minOf(Len(a), Len(b)) :
            /\ SubSeq(a, 1, k) = SubSeq(b, 1, k)
            /\ \/ k = Len(a)
               \/ k < Len(b) /\ charRank(a[k + 1]) < charRank(b[k + 1])

(* C16: immediately after handleSort(column), column title or price, every *)
(* adjacent pair of filteredProducts is in order on that column: titles in  *)
(* case-insensitive lexicographic order, prices in numeric order,           *)
(* non-decreasing when ascending and non-increasing when descending.        *)
C16_SortedAfterSort ==
    last.op = "handleSort" =>
        \A i \in 1..(Len(filteredProducts) - 1) :
            LET a == filteredProducts[i]
                b == filteredProducts[i + 1]
                up == sortConfig.direction = "asc"
            IN  /\ sortConfig.column = "title" =>
                     IF up THEN textAtMost(a.title, b.title)
                           ELSE textAtMost(b.title, a.title)
                /\ sortConfig.column = "price" =>
                     IF up THEN a.price <= b.price ELSE a.price >= b.price

\* ["B", "a", "ab"] sorted ascending by title: ["a", "ab", "B"]
C16_Witness ==
    /\ last.op = "handleSort"
    /\ sortConfig = [column |-> "title", direction |-> "asc"]
    /\ [i \in 1..Len(allProducts) |-> allProducts[i].title]
         = << <<"B">>, <<"a">>, <<"a", "b">> >>
    /\ [i \in 1..Len(filteredProducts) |-> filteredProducts[i].title]
         = << <<"a">>, <<"a", "b">>, <<"B">> >>

\* the ways the fetch fails: status, transport, body
FailedOutcomes == {"httpError", "networkError", "parseError"}

(* C17: the fetch is never retried: it is started only at page load, a      *)
(* settled getAll stays settled, and after a failed fetch no later action   *)
(* starts another, so allProducts and filteredProducts stay empty.          *)
C17_NoRetry ==
    [][/\ (pc' = "fetch" /\ pc # "fetch") => pc = "start"
       /\ (pc' = "fetch" /\ pc = "fetch") => last'.op \in UserOps
       /\ pc # "start" => pc' # "start"
       /\ pc = "done" => pc' = "done"
       /\ outcome \in FailedOutcomes =>
            /\ outcome' = outcome
            /\ allProducts' = <<>>
            /\ filteredProducts' = <<>>
      ]_vars

\* a sort clicked after the fetch failed in transport
C17_Witness ==
    /\ outcome = "networkError"
    /\ pc = "done"
    /\ last.op = "handleSort"
    /\ allProducts = <<>>
    /\ filteredProducts = <<>>

\* how often p occurs in s
occurrences(s, p) == Cardinality({ i \in 1..Len(s) : s[i] = p })

(* C18: handleSort only permutes filteredProducts: for every column the     *)
(* multiset of its products is the same after as before, and for a column   *)
(* sortProducts does not recognise the order is unchanged too.              *)
C18_SortPermutes ==
    [][last'.op = "handleSort" =>
         /\ Len(filteredProducts') = Len(filteredProducts)
         /\ \A p \in elements(filteredProducts) \cup elements(filteredProducts') :
                occurrences(filteredProducts', p) = occurrences(filteredProducts, p)
         /\ sortConfig'.column \notin {"title", "price"}
              => filteredProducts' = filteredProducts
      ]_vars

\* the unrecognised column clicked on a filtered list that a title sort had
\* put into another order than the fetched one
C18_Witness ==
    /\ last.op = "handleSort"
    /\ sortConfig.column = "id"
    /\ Len(filteredProducts) = 2
    /\ Len(allProducts) = 3
    /\ ~isSubsequence(filteredProducts, allProducts)

(* C19: whenever the table shows a render, the 'no products found' row is   *)
(* shown if and only if filteredProducts is empty: the view is never left   *)
(* on an empty page of a non-empty list.                                    *)
C19_NoDataIffEmpty ==
    tableBody.kind \in {"rows", "nodata"} =>
        (tableBody.kind = "nodata" <=> filteredProducts = <<>>)

\* a search on page 3 that keeps some products: rows, on page 1
C19_Witness ==
    /\ last = [op |-> "filterProducts", from |-> 3]
    /\ filteredProducts # <<>>
    /\ Len(filteredProducts) < Len(allProducts)
    /\ tableBody.kind = "rows"

(* C20: a page-size change, previousPage and nextPage leave                 *)
(* filteredProducts and sortConfig unchanged; a search and a successful     *)
(* fetch completion leave sortConfig and itemsPerPage unchanged.            *)
C20_Frame ==
    [][/\ last'.op \in {"itemsPerPage", "previousPage", "nextPage"} =>
            /\ filteredProducts' = filteredProducts
            /\ sortConfig' = sortConfig
       /\ last'.op \in {"filterProducts", "loaded"} =>
            /\ sortConfig' = sortConfig
            /\ itemsPerPage' = itemsPerPage
      ]_vars

\* a search typed while a descending price sort and a page size of 2 are set
C20_Witness ==
    /\ last.op = "filterProducts"
    /\ outcome = "ok"
    /\ sortConfig = [column |-> "price", direction |-> "desc"]
    /\ itemsPerPage = 2
    /\ searchValue # <<>>
    /\ filteredProducts # <<>>

====
